---- MODULE Spec2Model ----
(***************************************************************************)
(* A model of canvas_auto_downloader.py: the link classifier, the filename *)
(* resolver, the redirect resolver, the content validator, the downloader, *)
(* the page content transformer and the per-item loop of main.             *)
(*                                                                         *)
(* Text is modelled character by character: a Python str or bytes value is *)
(* a sequence of one-character strings, so that endswith, in, split,       *)
(* basename, strip, lower, re.search and re.sub are computed as the code   *)
(* computes them.  A parsed HTML document (BeautifulSoup) is the sequence  *)
(* of its anchors in document order.  The network is the environment:      *)
(* every request's outcome is a nondeterministic input of the action that  *)
(* issues it.  Paths follow posixpath.                                     *)
(***************************************************************************)
EXTENDS Integers, Sequences, FiniteSets, TLC

VARIABLES
    arg,        \* the inputs of the function a pure-function harness applies
    out,        \* its result
    called,     \* whether it has been applied
    fs,         \* the file system: path -> bytes, or NoFile
    prevCall,   \* the record of the download_file call before the last one
    lastCall,   \* the record of the last download_file call
    ncalls,     \* download_file calls made by the downloader harness
    items,      \* main: the module's items, in order
    idx,        \* main: the index of the next item to process
    pc,         \* main: "run", "done" or "crashed"
    log         \* main: per processed item, what main did with it

pureVars == <<arg, out, called>>
dlVars   == <<fs, prevCall, lastCall, ncalls>>
mainVars == <<items, idx, pc, log>>
vars     == <<arg, out, called, fs, prevCall, lastCall, ncalls, items, idx, pc, log>>

---------------------------------------------------------------------------
(* Characters and strings                                                  *)

UpperChars == <<"A","B","C","D","E","F","G","H","I","J","K","L","M","N","O","P","Q","R","S","T","U","V","W","X","Y","Z">>
LowerChars == <<"a","b","c","d","e","f","g","h","i","j","k","l","m","n","o","p","q","r","s","t","u","v","w","x","y","z">>
DigitChars == {"0","1","2","3","4","5","6","7","8","9"}
Whitespace == {" ", "\t", "\n", "\r"}

\* the lower-case letter of each upper-case letter
LowerOf ==
    [c \in {UpperChars[i] : i \in 1..Len(UpperChars)} |->
        LowerChars[CHOOSE i \in 1..Len(UpperChars) : UpperChars[i] = c]]

\* str.lower(), one character
LowerChar(c) == IF c \in DOMAIN LowerOf THEN LowerOf[c] ELSE c

\* str.lower()
Lower(s) == [i \in 1..Len(s) |-> LowerChar(s[i])]

\* s[i:i+len(p)] == p, for a 1-based i
MatchAt(s, i, p) ==
    /\ i >= 1
    /\ i + Len(p) - 1 <= Len(s)
    /\ \A k \in 1..Len(p) : s[i + k - 1] = p[k]

\* s.startswith(p)
StartsWith(s, p) == MatchAt(s, 1, p)

\* s.endswith(p)
EndsWith(s, p) == Len(p) <= Len(s) /\ MatchAt(s, Len(s) - Len(p) + 1, p)

\* p in s
Contains(s, p) == \E i \in 1..(Len(s) + 1) : MatchAt(s, i, p)

\* s[n:], for a 0-based n
DropFirst(s, n) == IF n >= Len(s) THEN <<>> ELSE SubSeq(s, n + 1, Len(s))

\* the index of the first / last occurrence of character c in s, 0 if none
FirstIndex(s, c) ==
    IF \E i \in 1..Len(s) : s[i] = c
    THEN CHOOSE i \in 1..Len(s) : s[i] = c /\ \A j \in 1..(i - 1) : s[j] # c
    ELSE 0

LastIndex(s, c) ==
    IF \E i \in 1..Len(s) : s[i] = c
    THEN CHOOSE i \in 1..Len(s) : s[i] = c /\ \A j \in (i + 1)..Len(s) : s[j] # c
    ELSE 0

\* s.split(c)[0]
BeforeFirst(s, c) == IF FirstIndex(s, c) = 0 THEN s ELSE SubSeq(s, 1, FirstIndex(s, c) - 1)

\* s.split(c)[-1]
AfterLast(s, c) == DropFirst(s, LastIndex(s, c))

\* s.strip()
Strip(s) ==
    IF \A i \in 1..Len(s) : s[i] \in Whitespace
    THEN <<>>
    ELSE LET a == CHOOSE i \in 1..Len(s) :
                      s[i] \notin Whitespace /\ \A j \in 1..(i - 1) : s[j] \in Whitespace
             b == CHOOSE i \in 1..Len(s) :
                      s[i] \notin Whitespace /\ \A j \in (i + 1)..Len(s) : s[j] \in Whitespace
         IN  SubSeq(s, a, b)

\* s.isdigit(), over ASCII
IsDigitStr(s) == Len(s) > 0 /\ \A i \in 1..Len(s) : s[i] \in DigitChars

\* os.path.basename(p)
Basename(p) == AfterLast(p, "/")

\* os.path.join(d, name), for a relative name
PathJoin(d, name) == IF d = <<>> \/ EndsWith(d, <<"/">>) THEN d \o name ELSE d \o <<"/">> \o name

\* os.path.splitext(p)[1]: from the last dot of the last component, unless that
\* dot only follows leading dots
SplitExt(p) ==
    LET sepIndex == LastIndex(p, "/")
        dotIndex == LastIndex(p, ".")
    IN  IF dotIndex > sepIndex
           /\ \E k \in (sepIndex + 1)..(dotIndex - 1) : p[k] # "."
        THEN SubSeq(p, dotIndex, Len(p))
        ELSE <<>>

\* A regular expression as re.search uses it here: a sequence of parts, each a
\* literal, \d+ or .*
Lit(s) == [kind |-> "lit", lit |-> s]
DigitsPlus == [kind |-> "digits", lit |-> <<>>]
AnyStar == [kind |-> "any", lit |-> <<>>]

RECURSIVE MatchFrom(_, _, _, _)
MatchFrom(s, i, pat, k) ==
    IF k > Len(pat) THEN TRUE
    ELSE IF pat[k].kind = "lit"
         THEN MatchAt(s, i, pat[k].lit) /\ MatchFrom(s, i + Len(pat[k].lit), pat, k + 1)
    ELSE IF pat[k].kind = "digits"
         THEN \E e \in (i + 1)..(Len(s) + 1) :
                  /\ \A j \in i..(e - 1) : s[j] \in DigitChars
                  /\ MatchFrom(s, e, pat, k + 1)
    ELSE \E e \in i..(Len(s) + 1) : MatchFrom(s, e, pat, k + 1)

\* re.search(pat, s) is not None
ReSearch(pat, s) == \E i \in 1..(Len(s) + 1) : MatchFrom(s, i, pat, 1)

\* re.sub(r'[\\/*?:"<>|]', "", s)
IllegalChars == {"\\", "/", "*", "?", ":", "\"", "<", ">", "|"}
IsLegalChar(c) == c \notin IllegalChars
Sanitize(s) == SelectSeq(s, IsLegalChar)

---------------------------------------------------------------------------
(* Program constants                                                       *)

BASE_URL == <<"h","t","t","p","s",":","/","/","t","h","o","m","a","s","m","o","r","e",".","i","n","s","t","r","u","c","t","u","r","e",".","c","o","m">>
DOWNLOAD_DIR == <<"C","a","n","v","a","s","D","o","w","n","l","o","a","d","s">>

\* '/download?download_frd=1', the direct-download marker
DownloadMarker == <<"/","d","o","w","n","l","o","a","d","?","d","o","w","n","l","o","a","d","_","f","r","d","=","1">>
DownloadPrefix == <<"d","o","w","n","l","o","a","d"," ">>
DownloadedFile == <<"d","o","w","n","l","o","a","d","e","d","_","f","i","l","e">>

---------------------------------------------------------------------------
(* Link Classifier: is_downloadable_file                                   *)

downloadable_extensions ==
    { <<".","p","d","f">>,
      <<".","d","o","c">>,
      <<".","d","o","c","x">>,
      <<".","p","p","t">>,
      <<".","p","p","t","x">>,
      <<".","x","l","s">>,
      <<".","x","l","s","x">>,
      <<".","z","i","p">>,
      <<".","r","a","r">>,
      <<".","7","z">>,
      <<".","t","a","r">>,
      <<".","g","z">>,
      <<".","j","p","g">>,
      <<".","j","p","e","g">>,
      <<".","p","n","g">>,
      <<".","g","i","f">>,
      <<".","b","m","p">>,
      <<".","s","v","g">>,
      <<".","m","p","3">>,
      <<".","m","p","4">>,
      <<".","a","v","i">>,
      <<".","m","o","v">>,
      <<".","w","a","v">>,
      <<".","t","x","t">>,
      <<".","c","s","v">>,
      <<".","j","s","o","n">>,
      <<".","x","m","l">>,
      <<".","h","t","m","l">>,
      <<".","c","s","s">>,
      <<".","j","s">>,
      <<".","p","y">>,
      <<".","j","a","v","a">>,
      <<".","c","p","p">>,
      <<".","c">>,
      <<".","h">>,
      <<".","s","q","l">>,
      <<".","d","b">>,
      <<".","s","q","l","i","t","e">>,
      <<".","r","t","f">>,
      <<".","o","d","t">>,
      <<".","o","d","s">>,
      <<".","o","d","p">> }
file_indicators ==
    { <<"d","o","w","n","l","o","a","d">>,
      <<"a","t","t","a","c","h","m","e","n","t">>,
      <<"f","i","l","e">>,
      <<".","p","d","f">>,
      <<".","d","o","c">>,
      <<".","p","p","t">>,
      <<".","x","l","s">>,
      <<"h","a","n","d","o","u","t">>,
      <<"w","o","r","k","s","h","e","e","t">>,
      <<"a","s","s","i","g","n","m","e","n","t">>,
      <<"s","y","l","l","a","b","u","s">>,
      <<"s","l","i","d","e","s">> }
non_file_indicators ==
    { <<"h","t","t","p",":","/","/","w","w","w",".">>,
      <<"h","t","t","p","s",":","/","/","w","w","w",".">>,
      <<"w","i","k","i">>,
      <<"p","a","g","e">>,
      <<"m","o","d","u","l","e">>,
      <<"d","i","s","c","u","s","s","i","o","n">>,
      <<"a","s","s","i","g","n","m","e","n","t"," ","s","u","b","m","i","s","s","i","o","n">>,
      <<"g","r","a","d","e">>,
      <<"c","o","u","r","s","e">> }

canvas_file_patterns ==
    << <<Lit(<<"/","c","o","u","r","s","e","s","/">>), DigitsPlus, Lit(<<"/","f","i","l","e","s","/">>), DigitsPlus>>,
       <<Lit(<<"/","f","i","l","e","s","/">>), DigitsPlus>>,
       <<Lit(DownloadMarker)>>,
       <<Lit(<<"/","c","o","u","r","s","e","s","/">>), DigitsPlus, Lit(<<"/","f","i","l","e","_","c","o","n","t","e","n","t","s","/">>)>>,
       <<Lit(<<"/","u","s","e","r","s","/">>), DigitsPlus, Lit(<<"/","f","i","l","e","s","/">>), DigitsPlus>>,
       <<Lit(<<"i","n","s","t","r","u","c","t","u","r","e",".","c","o","m">>), AnyStar, Lit(<<"f","i","l","e","s">>)>> >>

\* lines 252-255: the URL has a downloadable extension
HasDownloadableExtension(url) ==
    LET url_lower == Lower(url)
    IN  \E ext \in downloadable_extensions :
            \/ EndsWith(url_lower, ext)
            \/ Contains(url_lower, ext \o <<"?">>)
            \/ Contains(url_lower, ext \o <<"#">>)

\* lines 267-269: the URL matches a Canvas file pattern
MatchesCanvasFilePattern(url) ==
    \E k \in 1..Len(canvas_file_patterns) : ReSearch(canvas_file_patterns[k], url)

\* lines 274-277: the link text suggests a file
TextSuggestsFile(text) ==
    \E indicator \in file_indicators : Contains(Lower(text), indicator)

is_downloadable_file(url, text) ==
    IF HasDownloadableExtension(url) THEN TRUE
    ELSE IF MatchesCanvasFilePattern(url) THEN TRUE
    ELSE IF TextSuggestsFile(text) THEN TRUE
    ELSE IF \E indicator \in non_file_indicators :
                /\ Contains(Lower(text), indicator)
                /\ ~ \E ext \in downloadable_extensions : Contains(Lower(url), ext)
         THEN FALSE
    ELSE FALSE

---------------------------------------------------------------------------
(* Filename Resolver: get_filename_from_url_or_text                        *)

\* lines 291-294
UrlPath(url) == IF Contains(url, <<"?">>) THEN BeforeFirst(url, "?") ELSE url

\* lines 300-310: the name taken from the link text
FilenameFromText(url_path, text) ==
    LET stripped == Strip(text)
        unprefixed == IF StartsWith(Lower(stripped), DownloadPrefix)
                      THEN DropFirst(stripped, 9)
                      ELSE stripped
        ext == <<".">> \o AfterLast(url_path, ".")
    IN  IF ~Contains(unprefixed, <<".">>) /\ Contains(url_path, <<".">>) /\ Len(ext) <= 5
        THEN unprefixed \o ext
        ELSE unprefixed

\* line 314 without the fallback: the cleaned name returned as it is
OrSentinel_Dropped(filename) == filename

\* line 314
OrSentinel(filename) == IF filename # <<>> THEN filename ELSE DownloadedFile

get_filename_from_url_or_text(url, text) ==
    LET url_path == UrlPath(url)
        filename == Basename(url_path)
        chosen == IF filename = <<>> \/ IsDigitStr(filename) \/ ~Contains(filename, <<".">>)
                  THEN FilenameFromText(url_path, text)
                  ELSE filename
    IN  OrSentinel(Sanitize(chosen))

---------------------------------------------------------------------------
(* Idle values of the variables a specification does not use               *)

NoFiles == [p \in {} |-> <<>>]
PureIdle == arg = <<>> /\ out = <<>> /\ called = FALSE
DownloaderIdle == fs = NoFiles /\ prevCall = <<>> /\ lastCall = <<>> /\ ncalls = 0
MainIdle == items = <<>> /\ idx = 0 /\ pc = "idle" /\ log = <<>>

---------------------------------------------------------------------------
(* Inputs of the classifier and the filename resolver                      *)

\* the longest generated anchor text
MaxTextLen == 2

UrlHosts ==
    { <<"h","t","t","p","s",":","/","/","x">>,
      <<"h","t","t","p","s",":","/","/","a",".","b">>,
      <<"h","t","t","p","s",":","/","/","t",".","i","n","s","t","r","u","c","t","u","r","e",".","c","o","m">> }
UrlPaths ==
    { <<>>,
      <<"/">>,
      <<"/","v","i","e","w">>,
      <<"/","f","i","l","e","s","/","4","2">>,
      <<"/","f","i","l","e","s","/","4","2","/","d","o","w","n","l","o","a","d">>,
      <<"/","d","o","c","/","r","e","p","o","r","t",".","p","d","f">>,
      <<"/","n","o","t","e","s",".","P","D","F">>,
      <<"/","v","1",".","2","/","g","e","t">>,
      <<"/","c","o","u","r","s","e","s","/","1","/","p","a","g","e","s","/","i","n","t","r","o">>,
      <<"/","c","o","u","r","s","e","s","/","7","/","f","i","l","e","_","c","o","n","t","e","n","t","s","/","x">> }
UrlSuffixes ==
    { <<>>,
      <<"?","x","=","1">>,
      <<"?","n","a","m","e","=","a",".","p","d","f">>,
      <<"#","t","o","p">>,
      <<"#","s",".","j","s">>,
      <<"?","d","o","w","n","l","o","a","d","_","f","r","d","=","1">> }
TextPrefixes ==
    { <<>>,
      <<"D","o","w","n","l","o","a","d"," ">>,
      <<"D","O","W","N","L","O","A","D"," ">>,
      <<"d","o","w","n","l","o","a","d">> }
TextBodies ==
    { <<"c","l","i","c","k">>,
      <<"S","y","l","l","a","b","u","s",".","p","d","f">>,
      <<"S","y","l","l","a","b","u","s">>,
      <<"w","i","k","i"," ","p","a","g","e">>,
      <<"a",":","b","?">>,
      <<" ","x"," ">> }
TextAlphabet ==
    { <<"a">>,
      <<".">>,
      <<":">>,
      <<" ">>,
      <<"7">> }

RECURSIVE StringsUpTo(_)
StringsUpTo(n) ==
    IF n = 0 THEN {<<>>}
    ELSE StringsUpTo(n - 1) \cup {s \o c : s \in StringsUpTo(n - 1), c \in TextAlphabet}

Urls == {h \o p \o s : h \in UrlHosts, p \in UrlPaths, s \in UrlSuffixes}
FilenameUrls ==
    {h \o p \o s : h \in UrlHosts, p \in UrlPaths, s \in {<<>>, <<"?","x","=","1">>, <<"#","t","o","p">>}}
Texts ==
    {p \o b : p \in TextPrefixes, b \in TextBodies}
        \cup {p \o b : p \in {<<>>, <<"D","o","w","n","l","o","a","d"," ">>}, b \in StringsUpTo(MaxTextLen)}

---------------------------------------------------------------------------
(* The classifier applied to every URL and anchor text                     *)

InitClassifier ==
    /\ arg \in [url : Urls, text : TextBodies \cup TextPrefixes]
    /\ out = FALSE
    /\ called = FALSE
    /\ DownloaderIdle
    /\ MainIdle

Classify ==
    /\ ~called
    /\ called' = TRUE
    /\ out' = is_downloadable_file(arg.url, arg.text)
    /\ UNCHANGED <<arg, dlVars, mainVars>>

SpecClassifier == InitClassifier /\ [][Classify]_vars

\* the URL's path, query and fragment removed
PathOnly(url) == BeforeFirst(BeforeFirst(url, "#"), "?")

\* the cascade as stated: rule 1 on the path alone, then rule 2, then rule 3
StatedCascade(url, text) ==
    \/ \E ext \in downloadable_extensions : EndsWith(Lower(PathOnly(url)), ext)
    \/ MatchesCanvasFilePattern(url)
    \/ TextSuggestsFile(text)

\* C7: is_downloadable_file(url, text) is True exactly when the URL's path,
\* query and fragment removed, ends in an allow-listed extension, or the URL
\* matches a platform file-reference pattern, or the anchor text contains a
\* file-indicating keyword; an extension that occurs only in the query string
\* does not make the link downloadable.
C7_ClassifierIsStatedCascade ==
    called => (out = StatedCascade(arg.url, arg.text))

---------------------------------------------------------------------------
(* The filename resolver applied to every URL and anchor text              *)

InitFilename ==
    /\ arg \in [url : FilenameUrls, text : Texts]
    /\ out = <<>>
    /\ called = FALSE
    /\ DownloaderIdle
    /\ MainIdle

ResolveFilename ==
    /\ ~called
    /\ called' = TRUE
    /\ out' = get_filename_from_url_or_text(arg.url, arg.text)
    /\ UNCHANGED <<arg, dlVars, mainVars>>

SpecFilename == InitFilename /\ [][ResolveFilename]_vars

\* the URL's last path segment is empty, purely numeric or has no dot
LastSegmentUnusable(url) ==
    LET segment == Basename(UrlPath(url))
    IN  segment = <<>> \/ IsDigitStr(segment) \/ ~Contains(segment, <<".">>)

\* the anchor text, surrounding whitespace aside, without a leading
\* case-insensitive "download "
TextWithoutDownloadPrefix(text) ==
    LET t == Strip(text)
    IN  IF Len(t) >= 9 /\ Lower(SubSeq(t, 1, 9)) = DownloadPrefix THEN SubSeq(t, 10, Len(t)) ELSE t

FallbackName(url, text) ==
    LET base == TextWithoutDownloadPrefix(text)
        path == UrlPath(url)
        tail == AfterLast(path, ".")
        named == IF ~Contains(base, <<".">>) /\ Contains(path, <<".">>) /\ Len(tail) <= 4
                 THEN base \o <<".">> \o tail
                 ELSE base
    IN  SelectSeq(named, LAMBDA c : c \notin IllegalChars)

---------------------------------------------------------------------------
(* Content Validator: validate_file_content                                *)

\* f.read(1024)
HeaderBytes == 1024

PdfSignature == <<"%","P","D","F","-">>
zip_signatures == { <<"P","K","x03","x04">>, <<"P","K","x05","x06">>, <<"P","K","x07","x08">> }
JpegSignature == <<"xff","xd8","xff">>
PngSignature == <<"x89","P","N","G","\r","\n","x1a","\n">>
HtmlTag == <<"<","h","t","m","l">>
DoctypeTag == <<"<","!","d","o","c","t","y","p","e">>

Result(is_valid, message) == [valid |-> is_valid, message |-> message]

\* lines 169-197, on the header read
ValidateHeader(header, expected_extension) ==
    LET ext == Lower(expected_extension)
        lowered == Lower(header)
        html == Contains(lowered, HtmlTag)
        doctype == Contains(lowered, DoctypeTag)
    IN  IF ext = <<".","p","d","f">> /\ ~StartsWith(header, PdfSignature)
        THEN IF html \/ doctype
             THEN Result(FALSE, "Downloaded HTML instead of PDF")
             ELSE Result(FALSE, "Not a valid PDF file")
        ELSE IF ext \in {<<".","z","i","p">>, <<".","r","a","r">>, <<".","7","z">>}
                /\ ~ \E sig \in zip_signatures : StartsWith(header, sig)
        THEN IF html
             THEN Result(FALSE, "Downloaded HTML instead of archive")
             ELSE Result(FALSE, "Not a valid archive file")
        ELSE IF ext \in {<<".","j","p","g">>, <<".","j","p","e","g">>}
                /\ ~StartsWith(header, JpegSignature)
        THEN IF html
             THEN Result(FALSE, "Downloaded HTML instead of image")
             ELSE Result(FALSE, "Not a valid JPEG file")
        ELSE IF ext = <<".","p","n","g">> /\ ~StartsWith(header, PngSignature)
        THEN IF html
             THEN Result(FALSE, "Downloaded HTML instead of image")
             ELSE Result(FALSE, "Not a valid PNG file")
        ELSE IF html \/ doctype
        THEN Result(FALSE, "Downloaded HTML instead of expected file type")
        ELSE Result(TRUE, "File appears valid")

\* files: the file system; a file that cannot be opened raises inside the try
validate_file_content(files, file_path, expected_extension) ==
    IF file_path \notin DOMAIN files
    THEN Result(FALSE, "Could not validate file")
    ELSE LET content == files[file_path]
             header == IF Len(content) > HeaderBytes THEN SubSeq(content, 1, HeaderBytes) ELSE content
         IN  ValidateHeader(header, expected_extension)

---------------------------------------------------------------------------
(* The validator applied to files and expected extensions                  *)

ContentHeads ==
    { <<>>,
      PdfSignature,
      <<"%","P","D","F","-","1",".","4">>,
      <<"%","p","d","f","-">>,
      HtmlTag,
      <<"<","H","T","M","L",">">>,
      <<"<","!","D","O","C","T","Y","P","E"," ","h","t","m","l",">">>,
      <<"P","K","x03","x04">>,
      JpegSignature,
      PngSignature,
      <<"h","e","l","l","o">> }

ContentTails ==
    { <<>>,
      <<"a","b","c">>,
      <<"<","h","t","m","l",">">>,
      <<" ","<","H","t","m","l">>,
      <<"<","!","d","o","c","t","y","p","e">> }

\* n filler bytes
Padding(n) == [i \in 1..n |-> "x00"]

\* no filler, filler that leaves a tail astride the end of the header, filler
\* that pushes the tail past the header
PaddingLengths == {0, HeaderBytes - 8, HeaderBytes}

Contents == {h \o Padding(n) \o t : h \in ContentHeads, n \in PaddingLengths, t \in ContentTails}

Extensions ==
    { <<>>,
      <<".","p","d","f">>, <<".","P","D","F">>, <<".","P","d","f">>,
      <<".","z","i","p">>, <<".","7","z">>,
      <<".","j","p","g">>, <<".","p","n","g">>,
      <<".","t","x","t">> }

ValidatedPath == <<"f">>

InitValidator ==
    /\ arg \in [exists : {TRUE}, content : Contents, ext : Extensions]
                \cup [exists : {FALSE}, content : {<<>>}, ext : Extensions]
    /\ out = Result(FALSE, "")
    /\ called = FALSE
    /\ DownloaderIdle
    /\ MainIdle

Validate ==
    /\ ~called
    /\ called' = TRUE
    /\ out' = validate_file_content(
                  IF arg.exists THEN [p \in {ValidatedPath} |-> arg.content] ELSE NoFiles,
                  ValidatedPath, arg.ext)
    /\ UNCHANGED <<arg, dlVars, mainVars>>

SpecValidator == InitValidator /\ [][Validate]_vars

\* C6: a file that begins with %PDF-, whatever bytes follow in the first 1024,
\* with expected extension .pdf in any letter case validates true; a file that
\* begins with <html with extension .pdf validates false with the message that
\* HTML was downloaded instead of PDF.
C6_NoFalsePositiveOnPdf ==
    (called /\ arg.exists /\ Lower(arg.ext) = <<".","p","d","f">>) =>
        /\ StartsWith(arg.content, PdfSignature) => out.valid
        /\ StartsWith(arg.content, HtmlTag) =>
              (~out.valid /\ out.message = "Downloaded HTML instead of PDF")

\* the second half of C6 alone, which the validator satisfies
C6_HtmlAsPdfIsFlagged ==
    (called /\ arg.exists /\ Lower(arg.ext) = <<".","p","d","f">>
        /\ StartsWith(arg.content, HtmlTag)) =>
            (~out.valid /\ out.message = "Downloaded HTML instead of PDF")

---------------------------------------------------------------------------
(* The network and parsed pages                                            *)

\* An anchor of a parsed document: its download attribute ("none" when
\* absent), whether it has an href attribute, the href and the text.
Anchor(download, hasHref, href, text) ==
    [download |-> download, hasHref |-> hasHref, href |-> href, text |-> text]

\* The response to session.get(url, allow_redirects=True): "conn_error" when
\* the request itself raises, "http_error" when raise_for_status() raises,
\* else "ok" with the post-redirect URL and the anchors of the body.
Response(kind, url, anchors) == [kind |-> kind, url |-> url, anchors |-> anchors]

\* the indices of the anchors of a document that satisfy a test
FirstWhere(anchors, Test(_)) ==
    IF \E i \in 1..Len(anchors) : Test(anchors[i])
    THEN CHOOSE i \in 1..Len(anchors) : Test(anchors[i]) /\ \A j \in 1..(i - 1) : ~Test(anchors[j])
    ELSE 0

\* soup.find('a', attrs={'download': 'true'})
IsDownloadAnchor(a) == a.download = "true"

\* lines 143-144, 151-152, 341-344: a relative URL made absolute
Absolutize(href) == IF StartsWith(href, <<"/">>) THEN BASE_URL \o href ELSE href

---------------------------------------------------------------------------
(* Redirect Resolver: resolve_canvas_file_url                              *)

InstructureHost == <<"i","n","s","t","r","u","c","t","u","r","e",".","c","o","m">>
FilesSegment == <<"/","f","i","l","e","s","/">>
CoursesSegment == <<"/","c","o","u","r","s","e","s","/">>

\* line 156 returning the post-redirect URL instead
ResolveFallback_Final(url, final_url) == final_url

\* line 156: no download link found
ResolveFallback(url, final_url) == url

\* lines 127-156, the body of the try: the exception it raises ("none" when it
\* returns) and the value it returns
ResolveTry(url, probe) ==
    IF probe.kind = "conn_error" THEN [exc |-> "ConnectionError", url |-> <<>>]
    ELSE IF probe.kind = "http_error" THEN [exc |-> "HTTPError", url |-> <<>>]
    ELSE
    LET final_url == probe.url
        download_link == FirstWhere(probe.anchors, IsDownloadAnchor)
        HasMarker(a) == a.hasHref /\ Contains(a.href, DownloadMarker)
        marked == FirstWhere(probe.anchors, HasMarker)
    IN  IF Contains(final_url, DownloadMarker)
        THEN [exc |-> "none", url |-> final_url]
        ELSE IF /\ Contains(final_url, InstructureHost)
                /\ (Contains(final_url, FilesSegment) \/ Contains(final_url, CoursesSegment))
                /\ download_link # 0
                /\ probe.anchors[download_link].hasHref
                /\ probe.anchors[download_link].href # <<>>
        THEN [exc |-> "none", url |-> Absolutize(probe.anchors[download_link].href)]
        ELSE IF /\ Contains(final_url, InstructureHost)
                /\ (Contains(final_url, FilesSegment) \/ Contains(final_url, CoursesSegment))
                /\ marked # 0
        THEN [exc |-> "none", url |-> Absolutize(probe.anchors[marked].href)]
        ELSE [exc |-> "none", url |-> ResolveFallback(url, final_url)]

\* lines 125-160: any exception of the body is caught and the URL passed in returned
resolve_canvas_file_url(url, probe) ==
    IF ResolveTry(url, probe).exc # "none"
    THEN [exc |-> "none", url |-> url]
    ELSE ResolveTry(url, probe)

---------------------------------------------------------------------------
(* The resolver applied to URLs and probe responses                        *)

FilePageUrl == BASE_URL \o <<"/","c","o","u","r","s","e","s","/","1","/","f","i","l","e","s","/","4","2">>
DirectUrl == BASE_URL \o <<"/","f","i","l","e","s","/","4","2","/","d","o","w","n","l","o","a","d","?","d","o","w","n","l","o","a","d","_","f","r","d","=","1">>
ExternalUrl == <<"h","t","t","p","s",":","/","/","c","d","n",".","x","/","r","e","p","o","r","t",".","p","d","f">>
LoginUrl == BASE_URL \o <<"/","l","o","g","i","n">>
ReportUrl == <<"h","t","t","p","s",":","/","/","x","/","d","o","c","/","r","e","p","o","r","t",".","p","d","f">>

RelativeMarkerHref == <<"/","f","i","l","e","s","/","4","2","/","d","o","w","n","l","o","a","d","?","d","o","w","n","l","o","a","d","_","f","r","d","=","1">>
AbsoluteMarkerHref == <<"h","t","t","p","s",":","/","/","x","/","f","i","l","e","s","/","4","2","/","d","o","w","n","l","o","a","d","?","d","o","w","n","l","o","a","d","_","f","r","d","=","1">>
PageHref == <<"/","c","o","u","r","s","e","s","/","1","/","p","a","g","e","s","/","i","n","t","r","o">>
DownloadText == <<"D","o","w","n","l","o","a","d"," ","a",".","p","d","f">>
WikiText == <<"w","i","k","i"," ","p","a","g","e">>

DownloadAnchor == Anchor("true", TRUE, RelativeMarkerHref, DownloadText)
MarkerAnchor == Anchor("none", TRUE, AbsoluteMarkerHref, DownloadText)
PlainAnchor == Anchor("none", TRUE, PageHref, WikiText)
HreflessDownloadAnchor == Anchor("true", FALSE, <<>>, DownloadText)
OtherDownloadAnchor == Anchor("false", TRUE, PageHref, DownloadText)

ProbeUrls == {FilePageUrl, ReportUrl, DirectUrl}
ProbeFinalUrls == {FilePageUrl, DirectUrl, ExternalUrl, LoginUrl, ReportUrl}
ProbeBodies ==
    { <<>>,
      <<PlainAnchor>>,
      <<PlainAnchor, DownloadAnchor>>,
      <<MarkerAnchor>>,
      <<HreflessDownloadAnchor, PlainAnchor, MarkerAnchor>>,
      <<OtherDownloadAnchor, PlainAnchor>> }

ProbeResponses ==
    {Response("conn_error", <<>>, <<>>), Response("http_error", <<>>, <<>>)}
        \cup {Response("ok", u, b) : u \in ProbeFinalUrls, b \in ProbeBodies}

InitResolver ==
    /\ arg \in [url : ProbeUrls, probe : ProbeResponses]
    /\ out = [exc |-> "none", url |-> <<>>]
    /\ called = FALSE
    /\ DownloaderIdle
    /\ MainIdle

Resolve ==
    /\ ~called
    /\ called' = TRUE
    /\ out' = resolve_canvas_file_url(arg.url, arg.probe)
    /\ UNCHANGED <<arg, dlVars, mainVars>>

SpecResolver == InitResolver /\ [][Resolve]_vars

\* the probe succeeded, the final URL carries no direct-download marker, and
\* the body has no anchor marked download="true" and none whose href carries
\* the marker
NothingFound(probe) ==
    /\ probe.kind = "ok"
    /\ ~Contains(probe.url, DownloadMarker)
    /\ \A i \in 1..Len(probe.anchors) :
          /\ probe.anchors[i].download # "true"
          /\ ~(probe.anchors[i].hasHref /\ Contains(probe.anchors[i].href, DownloadMarker))

\* C10 as stated: resolve_canvas_file_url never raises and returns a URL; when
\* the probe finds nothing it returns the final (post-redirect) URL; when the
\* probe GET raises it returns the original URL.
C10_Original ==
    called =>
        /\ out.exc = "none"
        /\ NothingFound(arg.probe) => out.url = arg.probe.url
        /\ arg.probe.kind # "ok" => out.url = arg.url

\* C10, amended: resolve_canvas_file_url never raises and returns a URL; when
\* the probe finds nothing it returns the original URL, the one it was given,
\* not the post-redirect one; when the probe GET raises it returns the original
\* URL.
C10_ResolverFallsBackToOriginalUrl ==
    called =>
        /\ out.exc = "none"
        /\ out.url # <<>>
        /\ NothingFound(arg.probe) => out.url = arg.url
        /\ arg.probe.kind # "ok" => out.url = arg.url

\* a probe redirected to another page where nothing is found
C10_Witness ==
    /\ called
    /\ NothingFound(arg.probe)
    /\ arg.probe.url # arg.url
    /\ out.url = arg.url

---------------------------------------------------------------------------
(* Downloader: download_file                                               *)

\* The response to session.get(resolved_url, stream=True): "conn_error" when
\* the request raises, "http_error" when raise_for_status() raises, else "ok"
\* with the chunks iter_content yields; when broken, the transport fails after
\* `delivered` chunks and iter_content raises.
Stream(kind, chunks, delivered, broken) ==
    [kind |-> kind, chunks |-> chunks, delivered |-> delivered, broken |-> broken]

\* the bytes of the first n chunks
RECURSIVE Flatten(_, _)
Flatten(chunks, n) == IF n = 0 THEN <<>> ELSE Flatten(chunks, n - 1) \o chunks[n]

\* open(save_path, 'wb') and the writes that follow
WriteFile(files, path, content) ==
    [p \in (DOMAIN files) \cup {path} |-> IF p = path THEN content ELSE files[p]]

\* os.remove(save_path)
RemoveFile(files, path) == [p \in (DOMAIN files) \ {path} |-> files[p]]

\* line 204 with the test dropped: every call fetches
AlreadyDownloaded_Never(files, save_path) == FALSE

\* line 204: os.path.exists(save_path)
AlreadyDownloaded(files, save_path) == save_path \in DOMAIN files

\* lines 228-233 with the os.remove of line 233 in force
AfterValidation_Remove(files, save_path, is_valid) ==
    IF is_valid THEN files ELSE RemoveFile(files, save_path)

\* lines 228-233: both branches only print; the os.remove is commented out
AfterValidation(files, save_path, is_valid) == files

DownloadResult(exc, files, requests, outcome, message) ==
    [exc |-> exc, files |-> files, requests |-> requests, outcome |-> outcome, message |-> message]

\* download_file(session, url, save_path), given the responses to its two
\* requests: the file system it leaves, the requests it issued, and what it
\* reported: "already" (line 205), "error" (line 236), "valid" (line 229) or
\* "invalid" (line 231).  No exception leaves it: the try of line 213 catches
\* every Exception and os.makedirs is taken to succeed.
download_file(files, url, save_path, probe, stream) ==
    IF AlreadyDownloaded(files, save_path)
    THEN DownloadResult("none", files, <<>>, "already", "")
    ELSE
    LET resolved_url == resolve_canvas_file_url(url, probe).url
        requests == <<url, resolved_url>>
    IN  IF stream.kind # "ok"
        THEN DownloadResult("none", files, requests, "error", "")
        ELSE
        LET written == WriteFile(files, save_path, Flatten(stream.chunks, stream.delivered))
            validation == validate_file_content(written, save_path, SplitExt(save_path))
        IN  IF stream.broken
            THEN DownloadResult("none", written, requests, "error", "")
            ELSE DownloadResult("none",
                                AfterValidation(written, save_path, validation.valid),
                                requests,
                                IF validation.valid THEN "valid" ELSE "invalid",
                                validation.message)

---------------------------------------------------------------------------
(* download_file called again and again, as by successive runs             *)

\* the download_file calls of one behaviour
MaxCalls == 3

SavePaths == { <<"d","/","a",".","p","d","f">>, <<"d","/","c">> }
DownloadUrls == {FilePageUrl, ReportUrl}

DownloadProbes ==
    { Response("conn_error", <<>>, <<>>),
      Response("ok", FilePageUrl, <<DownloadAnchor>>),
      Response("ok", ExternalUrl, <<>>) }

PdfBody == << PdfSignature, <<"1",".","4"," ","b","o","d","y">> >>
HtmlBody == << <<"<","h","t","m","l",">">>, <<"e","r","r","o","r","<","/","h","t","m","l",">">> >>
TextBody == << <<"d","a","t","a">> >>
Bodies == {PdfBody, HtmlBody, TextBody, <<>>}

Streams ==
    {Stream("conn_error", <<>>, 0, FALSE), Stream("http_error", <<>>, 0, FALSE)}
        \cup {Stream("ok", b, Len(b), FALSE) : b \in Bodies}
        \cup UNION {{Stream("ok", b, k, TRUE) : k \in 0..(Len(b) - 1)} : b \in Bodies}

\* what the harness records of a call: the path, the number of requests the
\* call issued, what it reported, the file at the path before the call, the
\* bytes of the whole response body, and the paths whose download had been
\* written to the end before the call
CallRecord(made, path, result, files, body, completed) ==
    [ made |-> made,
      path |-> path,
      exc |-> result.exc,
      requests |-> Len(result.requests),
      outcome |-> result.outcome,
      message |-> result.message,
      existedBefore |-> path \in DOMAIN files,
      before |-> IF path \in DOMAIN files THEN files[path] ELSE <<>>,
      body |-> body,
      completedBefore |-> completed ]

NoCall == CallRecord(FALSE, <<>>, DownloadResult("none", NoFiles, <<>>, "none", ""), NoFiles, <<>>, {})

InitDownloader ==
    /\ fs = NoFiles
    /\ prevCall = NoCall
    /\ lastCall = NoCall
    /\ ncalls = 0
    /\ PureIdle
    /\ MainIdle

\* the paths whose download has been written to the end, after the last call
Completed ==
    lastCall.completedBefore
        \cup (IF lastCall.outcome \in {"valid", "invalid"} THEN {lastCall.path} ELSE {})

DownloadCall ==
    /\ ncalls < MaxCalls
    /\ \E url \in DownloadUrls, save_path \in SavePaths, probe \in DownloadProbes, stream \in Streams :
          LET result == download_file(fs, url, save_path, probe, stream)
          IN  /\ fs' = result.files
              /\ prevCall' = lastCall
              /\ lastCall' = CallRecord(TRUE, save_path, result, fs,
                                        IF result.outcome \in {"error", "valid", "invalid"}
                                        THEN Flatten(stream.chunks, Len(stream.chunks))
                                        ELSE <<>>,
                                        Completed)
    /\ ncalls' = ncalls + 1
    /\ UNCHANGED <<pureVars, mainVars>>

SpecDownloader == InitDownloader /\ [][DownloadCall]_vars

\* the last two calls were for the same save_path
SamePathTwice == prevCall.made /\ lastCall.made /\ prevCall.path = lastCall.path

\* the last call left the file at its save_path as it was
LastCallLeftFileAlone ==
    /\ lastCall.existedBefore = (lastCall.path \in DOMAIN fs)
    /\ lastCall.existedBefore => fs[lastCall.path] = lastCall.before

\* C4 as stated: of two consecutive calls with the same save_path, whatever the
\* first call's outcome, at most one issues network requests; the second
\* issues none and leaves the file byte-identical.
C4_Original ==
    SamePathTwice =>
        /\ ~(prevCall.requests > 0 /\ lastCall.requests > 0)
        /\ lastCall.requests = 0
        /\ LastCallLeftFileAlone

\* C4, amended: of two consecutive calls with the same save_path, if a file
\* exists at save_path when the first call returns (it was there already, or
\* the first call got as far as opening it for writing), at most one of the
\* calls issues network requests, and the second issues none and leaves the
\* file byte-identical; if no file exists there when the first call returns
\* (its streamed GET raised or had an error status), the second call issues
\* the resolver GET and the streamed GET again.
C4_SecondCallIsNoOpWhenFileExists ==
    SamePathTwice =>
        /\ lastCall.existedBefore =>
              /\ ~(prevCall.requests > 0 /\ lastCall.requests > 0)
              /\ lastCall.requests = 0
              /\ lastCall.outcome = "already"
              /\ LastCallLeftFileAlone
        /\ ~lastCall.existedBefore => (prevCall.requests = 2 /\ lastCall.requests = 2)

\* a first call that fetched and wrote the file, then a second that did nothing
C4_Witness ==
    /\ SamePathTwice
    /\ prevCall.requests = 2
    /\ prevCall.outcome = "valid"
    /\ lastCall.requests = 0
    /\ lastCall.existedBefore

\* C5: download_file skips a save_path, without fetching, only if an earlier
\* download of that path was written to the end; a path whose streamed GET
\* failed part-way through the write is fetched again by the next call.
C5_SkipsOnlyCompletedDownloads ==
    /\ (lastCall.made /\ lastCall.outcome = "already") =>
            lastCall.path \in lastCall.completedBefore
    /\ (SamePathTwice /\ prevCall.outcome = "error") => lastCall.requests > 0

\* C9: whenever download_file completes the streamed write and the validator
\* reports the file invalid, the file still exists at save_path with the bytes
\* that were written, the call reports the validation message, and it returns
\* without raising.
C9_InvalidFileIsKept ==
    (lastCall.made /\ lastCall.outcome = "invalid") =>
        /\ lastCall.path \in DOMAIN fs
        /\ fs[lastCall.path] = lastCall.body
        /\ lastCall.message \notin {"", "File appears valid"}
        /\ lastCall.exc = "none"

\* an HTML error page saved under a .pdf name
C9_Witness ==
    /\ lastCall.made
    /\ lastCall.outcome = "invalid"
    /\ lastCall.message = "Downloaded HTML instead of PDF"
    /\ lastCall.path \in DOMAIN fs
    /\ Len(fs[lastCall.path]) > 0

---------------------------------------------------------------------------
(* parse_file_download_link                                                *)

MailtoScheme == <<"m","a","i","l","t","o",":">>

\* lines 107 and 337: an href that is empty, a fragment or a mailto link
Unusable(href) ==
    href = <<>> \/ StartsWith(href, <<"#">>) \/ StartsWith(href, MailtoScheme)

\* lines 102-119 and 331-347: an anchor with an href that is usable and
\* classified as downloadable
IsDownloadableAnchor(a) ==
    /\ a.hasHref
    /\ ~Unusable(a.href)
    /\ is_downloadable_file(Absolutize(a.href), Strip(a.text))

\* lines 341-348 (and 111-118) for one anchor: whether it is collected as a
\* download link, and the name and the absolute URL it is collected with
LinkOf(a) ==
    [ downloadable |-> IsDownloadableAnchor(a),
      name |-> get_filename_from_url_or_text(Absolutize(a.href), Strip(a.text)),
      url |-> Absolutize(a.href) ]

\* the anchors that occur in the pages of the model, and LinkOf of each,
\* computed once
SlidesAnchor ==
    Anchor("none", TRUE,
           <<"/","c","o","u","r","s","e","s","/","1","/","f","i","l","e","s","/","4","2","/","d","o","w","n","l","o","a","d">>,
           <<"S","l","i","d","e","s",".","p","d","f">>)
NotesAnchor ==
    Anchor("none", TRUE,
           <<"h","t","t","p","s",":","/","/","x","/","n","o","t","e","s",".","t","x","t">>,
           <<"n","o","t","e","s">>)
AboutAnchor ==
    Anchor("none", TRUE,
           <<"h","t","t","p","s",":","/","/","e","x","a","m","p","l","e",".","o","r","g","/","a","b","o","u","t">>,
           <<"A","b","o","u","t">>)
ModulesAnchor ==
    Anchor("none", TRUE,
           <<"/","c","o","u","r","s","e","s","/","1","/","m","o","d","u","l","e","s">>,
           <<"M","o","d","u","l","e","s">>)
MailAnchor ==
    Anchor("none", TRUE, <<"m","a","i","l","t","o",":","t","@","x">>, <<"M","a","i","l">>)

PageAnchors ==
    { DownloadAnchor, MarkerAnchor, PlainAnchor, HreflessDownloadAnchor, OtherDownloadAnchor,
      SlidesAnchor, NotesAnchor, AboutAnchor, ModulesAnchor, MailAnchor }

Link == [a \in PageAnchors |-> LinkOf(a)]

IsLink(a) == Link[a].downloadable

\* lines 92-97: the download anchor's text as a file name
DownloadAnchorName(text) ==
    LET file_name == Strip(text)
    IN  IF StartsWith(Lower(file_name), DownloadPrefix)
        THEN Strip(DropFirst(file_name, 8))
        ELSE Strip(file_name)

\* The exception raised ("none" when it returns), the file name and the file
\* URL; (None, None) is (<<>>, <<>>).  a['href'] of line 90 raises KeyError for
\* a download anchor without an href.
FileLink(file_name, file_url) ==
    [exc |-> "none", file_name |-> file_name, file_url |-> file_url]

\* lines 88-120, given the index of the first anchor with download="true"
\* (0: none) and of the first anchor is_downloadable_file accepts (0: none)
ParsedLink(anchors, a, found) ==
    IF a # 0 /\ ~anchors[a].hasHref
    THEN [exc |-> "KeyError", file_name |-> <<>>, file_url |-> <<>>]
    ELSE IF a # 0 /\ Contains(anchors[a].href, DownloadMarker)
    THEN FileLink(DownloadAnchorName(anchors[a].text), Absolutize(anchors[a].href))
    ELSE IF found # 0
    THEN FileLink(Link[anchors[found]].name, Link[anchors[found]].url)
    ELSE FileLink(<<>>, <<>>)

parse_file_download_link(anchors) ==
    ParsedLink(anchors, FirstWhere(anchors, IsDownloadAnchor), FirstWhere(anchors, IsLink))

---------------------------------------------------------------------------
(* Page Content Transformer: parse_canvas_page_content_and_downloads       *)

\* the elements of a set of numbers in ascending order
RECURSIVE Ascending(_)
Ascending(S) ==
    IF S = {} THEN <<>>
    ELSE LET m == CHOOSE x \in S : \A y \in S : x <= y
         IN  <<m>> \o Ascending(S \ {m})

\* lines 329-355: the classified anchors of the body, in document order
DownloadLink(link, a_tag, original_href) ==
    [name |-> link.name, url |-> link.url, a_tag |-> a_tag, original_href |-> original_href]

LinksAt(anchors, indices) ==
    [k \in 1..Len(indices) |->
        DownloadLink(Link[anchors[indices[k]]], indices[k], anchors[indices[k]].href)]

DownloadLinksOf(anchors) ==
    LinksAt(anchors, Ascending({i \in 1..Len(anchors) : IsLink(anchors[i])}))

\* lines 364-370 for one link: what the loop leaves behind once download_file
\* has returned
AfterDownload(before, link, local_path, result) ==
    [ files |-> result.files,
      anchors |-> IF result.exc # "none" THEN before.anchors
                  ELSE [before.anchors EXCEPT ![link.a_tag].href = link.name],
      done |-> Append(before.done,
                      [ original_href |-> link.original_href,
                        name |-> link.name,
                        local_path |-> local_path,
                        outcome |-> result.outcome,
                        rewritten |-> result.exc = "none" ]) ]

\* lines 361-363 for one link
DownloadLinkTo(before, link, local_path, e) ==
    AfterDownload(before, link, local_path,
                  download_file(before.files, link.url, local_path, e.probe, e.stream))

\* lines 360-370, for the first k links: the file system and the anchors
\* after them, and per link what became of it.  env[k] holds the responses to
\* the two requests of the k-th download.
RECURSIVE DownloadLinks(_, _, _, _, _, _)
DownloadLinks(files, anchors, download_links, download_dir, env, k) ==
    IF k = 0 THEN [files |-> files, anchors |-> anchors, done |-> <<>>]
    ELSE DownloadLinkTo(DownloadLinks(files, anchors, download_links, download_dir, env, k - 1),
                        download_links[k],
                        PathJoin(download_dir, download_links[k].name),
                        env[k])

\* lines 373-374: the markup's links as markdown, [text](href), and the
\* newlines html2text ends its output with
RECURSIVE MarkdownLinks(_, _)
MarkdownLinks(anchors, n) ==
    IF n = 0 THEN <<>>
    ELSE MarkdownLinks(anchors, n - 1)
         \o (IF anchors[n].hasHref
             THEN <<"[">> \o anchors[n].text \o <<"]", "(">> \o anchors[n].href \o <<")">>
             ELSE anchors[n].text)

Markdown(anchors) == MarkdownLinks(anchors, Len(anchors)) \o <<"\n", "\n">>

\* The page is given as fetched: whether the "body":"..." literal is found
\* in it (line 318) and the anchors of the markup that literal unescapes to.
\* Returns whether markdown is returned (None otherwise), the markdown, the
\* file system, what became of each link and the anchors as serialized.
Transformed(after) ==
    [ found |-> TRUE,
      markdown |-> Markdown(after.anchors),
      files |-> after.files,
      done |-> after.done,
      anchors |-> after.anchors ]

TransformLinks(files, anchors, download_links, download_dir, env) ==
    Transformed(DownloadLinks(files, anchors, download_links, download_dir, env,
                              Len(download_links)))

parse_canvas_page_content_and_downloads(page, download_dir, files, env) ==
    IF ~page.hasBody
    THEN [found |-> FALSE, markdown |-> <<>>, files |-> files, done |-> <<>>, anchors |-> <<>>]
    ELSE TransformLinks(files, page.bodyAnchors, DownloadLinksOf(page.bodyAnchors),
                        download_dir, env)

---------------------------------------------------------------------------
(* main: the loop over the items of a module                               *)

course_name == <<"C","o","u","r","s","e">>
module_name == <<"M","o","d","u","l","e">>
PagesSegment == <<"/","p","a","g","e","s","/">>
MarkdownSuffix == <<".","m","d">>

ModuleDir == PathJoin(PathJoin(DOWNLOAD_DIR, course_name), module_name)

\* what main did with an item: how the fetch of its page ended, whether the
\* fetch was redirected straight to the file, the download_file calls main
\* made for the item itself, the page transformations, what became of each
\* link of a transformed page, and the exception that left main, if any
Entry(fetch, direct, downloads, transforms, done, exc) ==
    [ fetch |-> fetch, direct |-> direct, downloads |-> downloads,
      transforms |-> transforms, done |-> done, exc |-> exc ]

\* the fetch of the item's page was redirected straight to a direct-download
\* URL and the response body is the file itself
RedirectedToFile(resp) ==
    resp.kind = "ok" /\ Contains(resp.url, DownloadMarker) /\ resp.isFile

\* lines 427-431: the page is saved as <title>.md if it was transformed
SavePage(item, direct, page) ==
    [ files |-> IF page.found
                THEN WriteFile(page.files,
                               PathJoin(ModuleDir, Sanitize(item.title) \o MarkdownSuffix),
                               page.markdown)
                ELSE page.files,
      entry |-> Entry("ok", direct, 0, 1, page.done, "none") ]

\* lines 409-433, given what parse_file_download_link returned or raised
ProcessFetched(files, item, resp, env, link, direct) ==
    IF link.exc # "none"
    THEN [files |-> files, entry |-> Entry("ok", direct, 0, 0, <<>>, link.exc)]
    ELSE IF link.file_name # <<>> /\ link.file_url # <<>>
    THEN [ files |-> download_file(files, link.file_url,
                                   PathJoin(ModuleDir, OrSentinel(Sanitize(link.file_name))),
                                   env[1].probe, env[1].stream).files,
           entry |-> Entry("ok", direct, 1, 0, <<>>, "none") ]
    ELSE IF Contains(resp.url, PagesSegment)
    THEN SavePage(item, direct,
                  parse_canvas_page_content_and_downloads(resp, ModuleDir, files, env))
    ELSE [files |-> files, entry |-> Entry("ok", direct, 0, 0, <<>>, "none")]

\* lines 401-433 for one item, given the response to the fetch of its page and
\* the responses to the requests of the downloads
ProcessItem(files, item, resp, env) ==
    IF resp.kind = "conn_error"
    THEN \* not a requests.HTTPError: line 404 does not catch it
         [files |-> files, entry |-> Entry("conn_error", FALSE, 0, 0, <<>>, "ConnectionError")]
    ELSE IF resp.kind = "http_error"
    THEN [files |-> files, entry |-> Entry("http_error", FALSE, 0, 0, <<>>, "none")]
    ELSE ProcessFetched(files, item, resp, env,
                        parse_file_download_link(resp.anchors), RedirectedToFile(resp))

\* the download_file calls that ProcessFetched makes
DownloadsFor(resp, link) ==
    IF link.exc # "none" THEN 0
    ELSE IF link.file_name # <<>> /\ link.file_url # <<>> THEN 1
    ELSE IF Contains(resp.url, PagesSegment) /\ resp.hasBody
         THEN Len(DownloadLinksOf(resp.bodyAnchors))
    ELSE 0

DownloadsOf(resp) ==
    IF resp.kind # "ok" THEN 0
    ELSE DownloadsFor(resp, parse_file_download_link(resp.anchors))

---------------------------------------------------------------------------
(* main run over lists of items                                            *)

\* the longest list of items
MaxItems == 2

\* the most anchors in a page body
MaxAnchors == 2

ModuleItems ==
    << [ title |-> <<"I","n","t","r","o">>,
         url |-> BASE_URL \o <<"/","c","o","u","r","s","e","s","/","1","/","m","o","d","u","l","e","s","/","i","t","e","m","s","/","1","0">> ],
       [ title |-> <<"W","e","e","k"," ","1",":"," ","S","l","i","d","e","s">>,
         url |-> BASE_URL \o <<"/","c","o","u","r","s","e","s","/","1","/","m","o","d","u","l","e","s","/","i","t","e","m","s","/","1","1">> ],
       [ title |-> <<"N","o","t","e","s">>,
         url |-> BASE_URL \o <<"/","c","o","u","r","s","e","s","/","1","/","m","o","d","u","l","e","s","/","i","t","e","m","s","/","1","2">> ] >>

ItemLists == {SubSeq(ModuleItems, 1, n) : n \in 0..MaxItems}

\* anchors of page bodies: a file link named by its text, a file link named
\* by its URL, a navigational link
BodyAnchors == {SlidesAnchor, NotesAnchor, AboutAnchor}
PageBodies == UNION {[1..n -> BodyAnchors] : n \in 0..MaxAnchors}

WikiPageUrl == BASE_URL \o PageHref
AssignmentUrl == BASE_URL \o <<"/","c","o","u","r","s","e","s","/","1","/","a","s","s","i","g","n","m","e","n","t","s","/","5">>

\* The response to the fetch of an item's page (line 81): as Response, and
\* whether the "body":"..." literal occurs in the text, the anchors of the
\* markup it holds, and whether the text is a file's content, not a page.
ItemResponse(kind, url, anchors, hasBody, bodyAnchors, isFile) ==
    [ kind |-> kind, url |-> url, anchors |-> anchors,
      hasBody |-> hasBody, bodyAnchors |-> bodyAnchors, isFile |-> isFile ]

ItemResponses ==
    { ItemResponse("conn_error", <<>>, <<>>, FALSE, <<>>, FALSE),
      ItemResponse("http_error", <<>>, <<>>, FALSE, <<>>, FALSE),
      \* a file's landing page
      ItemResponse("ok", FilePageUrl, <<ModulesAnchor, DownloadAnchor>>, FALSE, <<>>, FALSE),
      \* a redirect straight to the file
      ItemResponse("ok", DirectUrl, <<>>, FALSE, <<>>, TRUE),
      \* a wiki page whose body is not found
      ItemResponse("ok", WikiPageUrl, <<ModulesAnchor>>, FALSE, <<>>, FALSE),
      \* neither a file nor a page
      ItemResponse("ok", AssignmentUrl, <<MailAnchor, ModulesAnchor>>, FALSE, <<>>, FALSE),
      \* a download anchor without an href
      ItemResponse("ok", FilePageUrl, <<HreflessDownloadAnchor>>, FALSE, <<>>, FALSE) }
        \cup {ItemResponse("ok", WikiPageUrl, <<ModulesAnchor>>, TRUE, b, FALSE) : b \in PageBodies}

\* The network as one download_file call meets it: the probe of the resolver
\* fails or yields the file's landing page, and the streamed GET fails, is
\* refused, delivers the file, or breaks after its first chunk.
MainProbes == {Response("conn_error", <<>>, <<>>), Response("ok", FilePageUrl, <<DownloadAnchor>>)}
MainStreams ==
    { Stream("conn_error", <<>>, 0, FALSE),
      Stream("http_error", <<>>, 0, FALSE),
      Stream("ok", PdfBody, Len(PdfBody), FALSE),
      Stream("ok", PdfBody, 1, TRUE) }
MainEnvs ==
    { e \in [probe : MainProbes, stream : MainStreams] :
        e.probe.kind = "ok" \/ (e.stream.kind = "ok" /\ ~e.stream.broken) }

InitMain ==
    /\ items \in ItemLists
    /\ idx = 1
    /\ pc = "run"
    /\ log = <<>>
    /\ fs = NoFiles
    /\ prevCall = <<>>
    /\ lastCall = <<>>
    /\ ncalls = 0
    /\ PureIdle

\* lines 400-433: the next item, from the fetch of its page to the end of
\* what main does with it; an exception that nothing catches ends main
MainItem ==
    /\ pc = "run"
    /\ idx <= Len(items)
    /\ \E resp \in ItemResponses :
        \E env \in [1..DownloadsOf(resp) -> MainEnvs] :
          LET step == ProcessItem(fs, items[idx], resp, env)
          IN  /\ fs' = step.files
              /\ log' = Append(log, step.entry)
              /\ pc' = IF step.entry.exc # "none" THEN "crashed" ELSE pc
              /\ idx' = IF step.entry.exc # "none" THEN idx ELSE idx + 1
    /\ UNCHANGED <<items, pureVars, prevCall, lastCall, ncalls>>

\* the loop of line 400 runs out of items
MainDone ==
    /\ pc = "run"
    /\ idx > Len(items)
    /\ pc' = "done"
    /\ UNCHANGED <<items, idx, log, fs, pureVars, prevCall, lastCall, ncalls>>

NextMain == MainItem \/ MainDone

SpecMain == InitMain /\ [][NextMain]_vars

\* C1: in parse_canvas_page_content_and_downloads an anchor whose download
\* failed, so that no file exists at download_dir/filename, keeps its original
\* href; an href is rewritten to the local filename only when a file exists at
\* that local path, so the markdown never references a local path that does
\* not exist.
C1_RewrittenOnlyWhenFileExists ==
    \A i \in 1..Len(log) : \A k \in 1..Len(log[i].done) :
        log[i].done[k].rewritten => log[i].done[k].local_path \in DOMAIN fs

\* C2: no failed network call ends the run: after a fetch of an item's page
\* that fails, by an HTTP error status or by a transport failure, main goes on
\* to the later items, and a run ends only when every item has been processed.
C2_NoNetworkFailureEndsTheRun ==
    /\ \A i \in 1..Len(log) : log[i].fetch # "ok" => log[i].exc = "none"
    /\ pc = "done" => Len(log) = Len(items)

\* C3: for an item whose page fetch is redirected straight to a direct-download
\* URL, the body being the file itself, main calls download_file exactly once
\* and never calls parse_canvas_page_content_and_downloads.
C3_RedirectedItemIsDownloadedOnce ==
    \A i \in 1..Len(log) :
        log[i].direct => (log[i].downloads = 1 /\ log[i].transforms = 0)

====
